---- MODULE Spec2Model ----
(***************************************************************************)
(* A model of xpi-util (src/mod.ts): the Result wrapper, the add-on id     *)
(* validator and getID, the three manifest readers (readExtInfo,           *)
(* readXpiInfo, parseExtManifest) and packageXpi.                          *)
(*                                                                         *)
(* JavaScript values are records carrying a tag t, so that undefined, null *)
(* and strings can be told apart the way the code's tests (truthiness,     *)
(* !== undefined, != undefined) tell them apart.  A string is a tuple of   *)
(* one-character strings; a file's content is a tuple of bytes.            *)
(***************************************************************************)
EXTENDS Naturals, Sequences, FiniteSets, TLC

VARIABLES api, world, disk, pkg, zip, last, readers, ncalls

vars == <<api, world, disk, pkg, zip, last, readers, ncalls>>

---------------------------------------------------------------------------
(* Bounds of the model.                                                    *)

\* Longest id string enumerated exhaustively for getID.
MaxIdLen == 3
\* Longest name string enumerated exhaustively for getID.
MaxNameLen == 2
\* Number of reader calls (readExtInfo, readXpiInfo, parseExtManifest) made
\* directly by the client in one behaviour.
MaxCalls == 1

---------------------------------------------------------------------------
(* JavaScript values.                                                      *)

Undefined == [t |-> "undefined"]
Null == [t |-> "null"]
JsStr(s) == [t |-> "string", s |-> s]
JsError(m) == [t |-> "error", message |-> m]

IsStr(v) == v.t = "string"

\* ToBoolean: undefined, null and the empty string are falsy; a non-empty
\* string, an object or an Error is truthy.
Truthy(v) ==
  CASE v.t = "undefined" -> FALSE
    [] v.t = "null" -> FALSE
    [] v.t = "string" -> v.s # <<>>
    [] OTHER -> TRUE

\* a || b
Or(a, b) == IF Truthy(a) THEN a ELSE b

---------------------------------------------------------------------------
(* class Result<T>                                                         *)

from_error(error) == [t |-> "Result", inner_data |-> Undefined, error |-> error]

from_data(data) == [t |-> "Result", inner_data |-> data, error |-> Undefined]

\* this.inner_data !== undefined  (strict: null is not undefined)
is_ok(r) == r.inner_data # Undefined

\* this.error != undefined  (loose: null == undefined)
is_err(r) == r.error # Undefined /\ r.error # Null

data(r) == r.inner_data

err(r) == r.error

---------------------------------------------------------------------------
(* isValidAOMAddonId: the regular expression                               *)
(*   /^(\{H{8}-H{4}-H{4}-H{4}-H{12}\}|[a-z0-9-\._]*\@[a-z0-9-\._]+)$/i     *)
(* matched against the whole string.                                       *)

Digits == {"0", "1", "2", "3", "4", "5", "6", "7", "8", "9"}
LowerLetters ==
  {"a", "b", "c", "d", "e", "f", "g", "h", "i", "j", "k", "l", "m",
   "n", "o", "p", "q", "r", "s", "t", "u", "v", "w", "x", "y", "z"}
UpperLetters ==
  {"A", "B", "C", "D", "E", "F", "G", "H", "I", "J", "K", "L", "M",
   "N", "O", "P", "Q", "R", "S", "T", "U", "V", "W", "X", "Y", "Z"}

\* [0-9a-f] under the i flag
HexChars == Digits \cup {"a", "b", "c", "d", "e", "f"} \cup {"A", "B", "C", "D", "E", "F"}

\* [a-z0-9-\._] under the i flag
TokenChars == LowerLetters \cup UpperLetters \cup Digits \cup {"-", ".", "_"}

UuidDashes == {10, 15, 20, 25}

\* \{[0-9a-f]{8}-[0-9a-f]{4}-[0-9a-f]{4}-[0-9a-f]{4}-[0-9a-f]{12}\}
MatchesUuid(s) ==
  /\ Len(s) = 38
  /\ s[1] = "{"
  /\ s[38] = "}"
  /\ \A i \in 2..37 : IF i \in UuidDashes THEN s[i] = "-" ELSE s[i] \in HexChars

\* [a-z0-9-\._]*\@[a-z0-9-\._]+
MatchesEmailLike(s) ==
  \E i \in 1..Len(s) :
    /\ s[i] = "@"
    /\ \A j \in 1..(i - 1) : s[j] \in TokenChars
    /\ i < Len(s)
    /\ \A j \in (i + 1)..Len(s) : s[j] \in TokenChars

\* .test(s || ""): a falsy argument is tested as the empty string.
isValidAOMAddonId(v) ==
  LET s == IF Truthy(v) THEN v.s ELSE <<>>
  IN  MatchesUuid(s) \/ MatchesEmailLike(s)

---------------------------------------------------------------------------
(* getID                                                                   *)

\* A plausible slip: an invalid explicit id falls through to the name.
getID_FallThrough(manifest) ==
  IF Truthy(manifest.id) /\ isValidAOMAddonId(manifest.id)
  THEN manifest.id
  ELSE IF Truthy(manifest.name)
       THEN LET id == JsStr(<<"@">> \o manifest.name.s)
            IN  IF isValidAOMAddonId(id) THEN id ELSE Undefined
       ELSE Undefined

getID(manifest) ==
  IF Truthy(manifest.id)
  THEN IF isValidAOMAddonId(manifest.id) THEN manifest.id ELSE Undefined
  ELSE IF Truthy(manifest.name)
       THEN LET id == JsStr(<<"@">> \o manifest.name.s)
            IN  IF isValidAOMAddonId(id) THEN id ELSE Undefined
       ELSE Undefined

---------------------------------------------------------------------------
(* File contents, text decoding and JSON.parse.                            *)
(*                                                                         *)
(* A byte is an ASCII character (written as itself) or one of the two high *)
(* bytes xC3 and xA9, which together are the UTF-8 encoding of U+00E9.     *)
(* A manifest file is the serialisation of a JSON document: its syntax     *)
(* (an object, the literal null, or text that is not JSON) and, for an     *)
(* object, the bytes of each string literal in it.                         *)

HighBytes == {"xC3", "xA9"}

RECURSIVE DecodeUtf8(_)
\* TextDecoder("utf-8"), not fatal: an ill-formed byte becomes U+FFFD.
DecodeUtf8(b) ==
  IF b = <<>> THEN <<>>
  ELSE IF Len(b) >= 2 /\ b[1] = "xC3" /\ b[2] = "xA9"
       THEN <<"U+00E9">> \o DecodeUtf8(SubSeq(b, 3, Len(b)))
       ELSE IF b[1] \in HighBytes
            THEN <<"U+FFFD">> \o DecodeUtf8(Tail(b))
            ELSE <<b[1]>> \o DecodeUtf8(Tail(b))

\* TextDecoder("windows-1252"): every byte is one character.
DecodeWindows1252(b) ==
  [i \in 1..Len(b) |->
     CASE b[i] = "xC3" -> "U+00C3"
       [] b[i] = "xA9" -> "U+00A9"
       [] OTHER -> b[i]]

\* new TextDecoder(): the default encoding is utf-8.
DefaultDecoder == [t |-> "TextDecoder", encoding |-> "utf-8"]

DecodeBytes(decoder, b) ==
  IF decoder.encoding = "utf-8" THEN DecodeUtf8(b) ELSE DecodeWindows1252(b)

DecodeVal(decoder, v) ==
  IF v.t = "bytestr" THEN JsStr(DecodeBytes(decoder, v.b)) ELSE v

DecodeGecko(decoder, g) ==
  IF g.t = "object" THEN [t |-> "object", id |-> DecodeVal(decoder, g.id)] ELSE g

DecodeSettings(decoder, s) ==
  IF s.t = "object" THEN [t |-> "object", gecko |-> DecodeGecko(decoder, s.gecko)] ELSE s

NotJsonText == [t |-> "text", syntax |-> "malformed"]

\* decoder.decode(data): the text of a file.  Under utf-16le the ASCII
\* punctuation of a JSON document does not survive; bytes that are not a
\* manifest document (an archive, a script) are not JSON under any decoder.
Decode(decoder, content) ==
  IF content.t # "jsonbytes" \/ decoder.encoding = "utf-16le" THEN NotJsonText
  ELSE IF content.syntax # "object" THEN [t |-> "text", syntax |-> content.syntax]
  ELSE [t |-> "text", syntax |-> "object",
        browser_specific_settings |-> DecodeSettings(decoder, content.browser_specific_settings),
        applications |-> DecodeSettings(decoder, content.applications),
        name |-> DecodeVal(decoder, content.name),
        version |-> DecodeVal(decoder, content.version)]

\* jsonEntry.getData(new TextWriter()): zip.js decodes the entry as utf-8.
TextWriterData(content) == Decode(DefaultDecoder, content)

Return(v) == [t |-> "return", v |-> v]
Throw(e) == [t |-> "throw", e |-> e]

\* JSON.parse(doc)
JSONParse(doc) ==
  CASE doc.syntax = "malformed" -> Throw("SyntaxError")
    [] doc.syntax = "null" -> Return(Null)
    [] OTHER -> Return([t |-> "object",
                        browser_specific_settings |-> doc.browser_specific_settings,
                        applications |-> doc.applications,
                        name |-> doc.name,
                        version |-> doc.version])

EmptyObject == [t |-> "object"]

\* o.f on an object: a missing property reads as undefined.
Get(o, f) == IF f \in DOMAIN o THEN o[f] ELSE Undefined

\* ((m.browser_specific_settings || {}).gecko || {}).id
GeckoId(settings) == Get(Or(Get(Or(settings, EmptyObject), "gecko"), EmptyObject), "id")

\* The details block shared by the three readers (lines 109-122, 150-163,
\* 179-192): id from browser_specific_settings, else applications; name and
\* version copied from the manifest.
ExtractDetails(m) ==
  LET id1 == GeckoId(m.browser_specific_settings)
      id2 == IF ~Truthy(id1) THEN GeckoId(m.applications) ELSE id1
  IN  [id |-> id2, name |-> m.name, version |-> m.version]

\* JSON.parse followed by the details block.  Reading a property of null
\* throws a TypeError.
ParseDetails(doc) ==
  LET p == JSONParse(doc)
  IN  IF p.t = "throw" THEN p
      ELSE IF p.v = Null THEN Throw("TypeError")
      ELSE Return(ExtractDetails(p.v))

---------------------------------------------------------------------------
(* The file system and archives.                                           *)
(*                                                                         *)
(* The node at a path is nothing, a directory (its regular files by        *)
(* relative path) or a regular file.  An archive is a file whose content   *)
(* is a zip stream: the entries written so far and whether the central     *)
(* directory that ends a complete archive has been written.                *)

NoNode == [t |-> "none"]
NoFile == [t |-> "nofile"]
FileNode(content) == [t |-> "file", content |-> content]

ManifestPath == <<"manifest.json">>
ScriptPath == <<"content.js">>
SubManifestPath == <<"sub", "manifest.json">>
RelPaths == {ManifestPath, ScriptPath, SubManifestPath}

\* The paths a client passes: the location itself, manifest.json inside
\* it, and a file of the target folder.
LocPath == [t |-> "loc"]
LocManifestPath == [t |-> "locManifest"]
OutPath(name) == [t |-> "out", name |-> name]

\* The node a path names, given the location's node and the target folder.
Resolve(path, w, d) ==
  CASE path.t = "loc" -> w
    [] path.t = "locManifest" ->
         IF w.t = "dir" /\ w.files[ManifestPath] # NoFile
         THEN FileNode(w.files[ManifestPath])
         ELSE NoNode
    [] OTHER ->
         IF \E f \in d : f.name = path.name
         THEN FileNode((CHOOSE f \in d : f.name = path.name).content)
         ELSE NoNode

\* zipReader.getEntries(): the entries of a complete archive; anything
\* else is rejected by the archive reader.
ZipGetEntries(content) ==
  IF content.t = "zip" /\ content.cd THEN Return(content.entries) ELSE Throw("ZipError")

\* entries.find((entry) => entry.filename == "manifest.json")
FindManifestEntry(entries) ==
  IF \E i \in 1..Len(entries) : entries[i].filename = ManifestPath
  THEN entries[CHOOSE i \in 1..Len(entries) :
                 /\ entries[i].filename = ManifestPath
                 /\ \A j \in 1..(i - 1) : entries[j].filename # ManifestPath]
  ELSE Undefined

MissingManifestError == JsError("do not contain manifest.json")
NotExistError == JsError("path does not exist")

\* What a call did: how it ended (ret: a returned value or a thrown
\* exception) and how many archive readers it opened and closed.
Outcome(ret, opened, closed) == [ret |-> ret, opened |-> opened, closed |-> closed]

---------------------------------------------------------------------------
(* readExtInfo, readXpiInfo, parseExtManifest                              *)

\* let type = "file"; if (isDir) { type = "dir"; }
TypeTag(isDir) == IF isDir THEN "dir" ELSE "file"

readExtInfo(node, textDecoder) ==
  IF node.t = "none" THEN Outcome(Throw("NotFound"), 0, 0)  \* Deno.stat
  ELSE
    LET isDir == node.t = "dir"
        type == TypeTag(isDir)
        decoder == Or(textDecoder, DefaultDecoder)
        finish(doc, opened, closed) ==
          LET details == ParseDetails(doc)
          IN  IF details.t = "throw" THEN Outcome(details, opened, closed)
              ELSE Outcome(Return(from_data([type |-> type, info |-> details.v])),
                           opened, closed)
    IN  IF isDir
        THEN IF node.files[ManifestPath] = NoFile
             THEN Outcome(Throw("NotFound"), 0, 0)  \* Deno.readFileSync
             ELSE finish(Decode(decoder, node.files[ManifestPath]), 0, 0)
        ELSE LET entries == ZipGetEntries(node.content)
             IN  IF entries.t = "throw" THEN Outcome(entries, 1, 0)
                 ELSE LET jsonEntry == FindManifestEntry(entries.v)
                      IN  IF ~Truthy(jsonEntry)
                          THEN Outcome(Return(from_error(MissingManifestError)), 1, 0)
                          ELSE finish(TextWriterData(jsonEntry.data), 1, 1)

readXpiInfo(node) ==
  IF node.t = "none" THEN Outcome(Return(from_error(NotExistError)), 0, 0)
  ELSE IF node.t = "dir" THEN Outcome(Throw("IsADirectory"), 0, 0)  \* Deno.readFile
  ELSE LET entries == ZipGetEntries(node.content)
       IN  IF entries.t = "throw" THEN Outcome(entries, 1, 0)
           ELSE LET jsonEntry == FindManifestEntry(entries.v)
                IN  IF ~Truthy(jsonEntry)
                    THEN Outcome(Return(from_error(MissingManifestError)), 1, 0)
                    ELSE LET details == ParseDetails(TextWriterData(jsonEntry.data))
                         IN  IF details.t = "throw" THEN Outcome(details, 1, 1)
                             ELSE Outcome(Return(from_data(details.v)), 1, 1)

parseExtManifest(node, textDecoder) ==
  IF node.t = "none" THEN Outcome(Return(from_error(NotExistError)), 0, 0)
  ELSE IF node.t = "dir" THEN Outcome(Throw("IsADirectory"), 0, 0)  \* Deno.readFileSync
  ELSE LET decoder == Or(textDecoder, DefaultDecoder)
           details == ParseDetails(Decode(decoder, node.content))
       IN  IF details.t = "throw" THEN Outcome(details, 0, 0)
           ELSE Outcome(Return(from_data(details.v)), 0, 0)

---------------------------------------------------------------------------
(* packageXpi                                                              *)

\* A walk entry: a path relative to the walked directory and whether it
\* is a regular file (the root and sub-directories are entries too).
WalkEntry(path, isFile) == [path |-> path, isFile |-> isFile]

\* The names Deno.readDir lists in the root of a directory.
RootChildren(dir) ==
  {n \in {"manifest.json", "content.js"} : dir.files[<<n>>] # NoFile}
    \cup (IF dir.files[SubManifestPath] # NoFile THEN {"sub"} ELSE {})

\* The entry of a root child, and the entries walk yields below it.
ChildEntry(n) == WalkEntry(<<n>>, n # "sub")
ChildSubtree(n) == IF n = "sub" THEN <<WalkEntry(SubManifestPath, TRUE)>> ELSE <<>>

\* A plausible slip: the test of the loop is inverted.
Skipped_Inverted(fileEntry) == fileEntry.isFile

\* if (!fileEntry.isFile) { continue; }
Skipped(fileEntry) == ~fileEntry.isFile

\* path.relative(sourceDir, fileEntry.path)
ZipPath(fileEntry) == fileEntry.path

\* One iteration of the walk loop: a regular file is read and added to
\* the archive under its relative path; anything else is skipped.
AddEntry(z, dir, fileEntry) ==
  IF Skipped(fileEntry) THEN z
  ELSE [z EXCEPT !.entries =
          Append(@, [t |-> "entry", filename |-> ZipPath(fileEntry),
                     data |-> IF fileEntry.path \in RelPaths
                              THEN dir.files[fileEntry.path] ELSE NoFile])]

\* await zipFileWriter.getData(): the BlobWriter's blob collects the
\* writer's stream and is there once the stream has been closed, which
\* zipWriter.close() does after writing the central directory.
BlobReady(z) == z.closed

\* A plausible slip: the undefined identifier is not checked.
NoFileName_Unchecked(fileNamePre) == FALSE

\* if (!fileNamePre) { return; }
NoFileName(fileNamePre) == ~Truthy(fileNamePre)

\* if (info_result.is_err()) { return; }
InspectionFailed(info_result) == is_err(info_result)

XpiSuffix == <<".xpi">>

PkgIdle ==
  [pc |-> "idle", textDecoder |-> Undefined, todo |-> {}, queue |-> <<>>,
   info_result |-> Undefined, fileName |-> <<>>, blob |-> Undefined, ret |-> Undefined]

ZipIdle == [entries |-> <<>>, cd |-> FALSE, closed |-> FALSE, task |-> "none"]

NoCall == [op |-> "none"]

TextDecoders ==
  {Undefined,
   [t |-> "TextDecoder", encoding |-> "windows-1252"],
   [t |-> "TextDecoder", encoding |-> "utf-16le"]}

\* packageXpi(sourceDir, textDecoder) is called: the archive writer is
\* created and the walk of sourceDir begins.  Walking a path that does not
\* exist or is not a directory throws.  The behaviours explored package
\* first and call the readers afterwards, or only call the readers.
PkgStart(textDecoder) ==
  /\ pkg.pc = "idle"
  /\ ncalls = 0
  /\ zip' = ZipIdle
  /\ IF world.t = "dir"
     THEN pkg' = [pkg EXCEPT !.pc = "walk", !.textDecoder = textDecoder,
                             !.queue = <<WalkEntry(<<>>, FALSE)>>,
                             !.todo = RootChildren(world)]
     ELSE pkg' = [pkg EXCEPT !.pc = "done", !.textDecoder = textDecoder,
                             !.ret = Throw(IF world.t = "none" THEN "NotFound"
                                           ELSE "NotADirectory")]
  /\ UNCHANGED <<api, world, disk, last, readers, ncalls>>

\* The walk loop, lines 209-217: the next entry the walk yields.  The
\* order of a directory's children is the operating system's.
PkgWalk ==
  /\ pkg.pc = "walk"
  /\ \/ /\ pkg.queue # <<>>
        /\ zip' = AddEntry(zip, world, Head(pkg.queue))
        /\ pkg' = [pkg EXCEPT !.queue = Tail(@)]
     \/ /\ pkg.queue = <<>>
        /\ \E n \in pkg.todo :
             /\ zip' = AddEntry(zip, world, ChildEntry(n))
             /\ pkg' = [pkg EXCEPT !.todo = @ \ {n}, !.queue = ChildSubtree(n)]
  /\ UNCHANGED <<api, world, disk, last, readers, ncalls>>

\* Line 218: zipWriter.close() is called and not awaited; line 219 calls
\* readExtInfo.
PkgClose ==
  /\ pkg.pc = "walk"
  /\ pkg.queue = <<>>
  /\ pkg.todo = {}
  /\ zip' = [zip EXCEPT !.task = "running"]
  /\ pkg' = [pkg EXCEPT !.pc = "inspect"]
  /\ UNCHANGED <<api, world, disk, last, readers, ncalls>>

\* The close task writes the central directory ...
ZipWriteCentralDirectory ==
  /\ zip.task = "running"
  /\ ~zip.cd
  /\ zip' = [zip EXCEPT !.cd = TRUE]
  /\ UNCHANGED <<api, world, disk, pkg, last, readers, ncalls>>

\* ... and then closes the writer's stream.
ZipCloseStream ==
  /\ zip.task = "running"
  /\ zip.cd
  /\ zip' = [zip EXCEPT !.closed = TRUE, !.task = "done"]
  /\ UNCHANGED <<api, world, disk, pkg, last, readers, ncalls>>

\* Line 219: await readExtInfo(sourceDir, textDecoder).  An exception
\* thrown by readExtInfo ends packageXpi with that exception.
PkgInspect ==
  /\ pkg.pc = "inspect"
  /\ LET o == readExtInfo(world, pkg.textDecoder)
     IN  /\ readers' = readers + o.opened - o.closed
         /\ IF o.ret.t = "throw"
            THEN pkg' = [pkg EXCEPT !.pc = "done", !.ret = o.ret]
            ELSE pkg' = [pkg EXCEPT !.pc = "derive", !.info_result = o.ret.v]
  /\ UNCHANGED <<api, world, disk, zip, last, ncalls>>

\* Lines 220-230: the two early returns, the file name, and the call of
\* getData.
PkgDerive ==
  /\ pkg.pc = "derive"
  /\ IF InspectionFailed(pkg.info_result)
     THEN pkg' = [pkg EXCEPT !.pc = "done", !.ret = Return(Undefined)]
     ELSE LET info == data(pkg.info_result).info
              fileNamePre == getID(info)
          IN  IF NoFileName(fileNamePre)
              THEN pkg' = [pkg EXCEPT !.pc = "done", !.ret = Return(Undefined)]
              ELSE pkg' = [pkg EXCEPT !.pc = "getData",
                                      !.fileName = IF fileNamePre.t = "string"
                                                   THEN fileNamePre.s \o XpiSuffix
                                                   ELSE <<"undefined">> \o XpiSuffix]
  /\ UNCHANGED <<api, world, disk, zip, last, readers, ncalls>>

\* Line 230: getData resolves with what the writer's stream holds.
PkgGetData ==
  /\ pkg.pc = "getData"
  /\ BlobReady(zip)
  /\ pkg' = [pkg EXCEPT !.pc = "write",
                        !.blob = [t |-> "zip", entries |-> zip.entries, cd |-> zip.cd]]
  /\ UNCHANGED <<api, world, disk, zip, last, readers, ncalls>>

\* Line 232: the payload is written to the target, replacing a file of
\* that name; packageXpi then returns nothing.  disk is the content of the
\* target folder (targetFolder || Deno.cwd()).
PkgWrite ==
  /\ pkg.pc = "write"
  /\ disk' = {f \in disk : f.name # pkg.fileName}
               \cup {[name |-> pkg.fileName, content |-> pkg.blob]}
  /\ pkg' = [pkg EXCEPT !.pc = "done", !.ret = Return(Undefined)]
  /\ UNCHANGED <<api, world, zip, last, readers, ncalls>>

---------------------------------------------------------------------------
(* Calls of the readers by a client, made while no packaging is under way; *)
(* the readers share no state with packageXpi but the files.               *)

ClientPaths == {LocPath, LocManifestPath} \cup {OutPath(f.name) : f \in disk}

CallDone(op, path, textDecoder, o) ==
  /\ last' = [op |-> op, path |-> path, textDecoder |-> textDecoder, ret |-> o.ret,
              opened |-> o.opened, closed |-> o.closed]
  /\ readers' = readers + o.opened - o.closed
  /\ ncalls' = ncalls + 1
  /\ UNCHANGED <<api, world, disk, pkg, zip>>

CallReadExtInfo(path, textDecoder) ==
  /\ pkg.pc \in {"idle", "done"}
  /\ ncalls < MaxCalls
  /\ CallDone("readExtInfo", path, textDecoder,
              readExtInfo(Resolve(path, world, disk), textDecoder))

CallReadXpiInfo(path) ==
  /\ pkg.pc \in {"idle", "done"}
  /\ ncalls < MaxCalls
  /\ CallDone("readXpiInfo", path, Undefined, readXpiInfo(Resolve(path, world, disk)))

CallParseExtManifest(path, textDecoder) ==
  /\ pkg.pc \in {"idle", "done"}
  /\ ncalls < MaxCalls
  /\ CallDone("parseExtManifest", path, textDecoder,
              parseExtManifest(Resolve(path, world, disk), textDecoder))

---------------------------------------------------------------------------
(* The inputs explored.                                                    *)

Rep(c, n) == [i \in 1..n |-> c]

\* {11111111-1111-1111-1111-111111111111}
UuidOf(c) ==
  <<"{">> \o Rep(c, 8) \o <<"-">> \o Rep(c, 4) \o <<"-">> \o Rep(c, 4) \o <<"-">>
    \o Rep(c, 4) \o <<"-">> \o Rep(c, 12) \o <<"}">>

ValidUuid == UuidOf("1")

BStr(b) == [t |-> "bytestr", b |-> b]
GeckoWithId(b) == [t |-> "object", gecko |-> [t |-> "object", id |-> BStr(b)]]

\* browser_specific_settings: absent, without gecko, with gecko.id empty,
\* a braced UUID, or a string that is no identifier.
BssOptions ==
  {Undefined, [t |-> "object", gecko |-> Undefined],
   GeckoWithId(<<>>), GeckoWithId(ValidUuid), GeckoWithId(<<"n", "o", " ">>)}

\* applications: absent, with gecko.id empty, or an e-mail-like id.
AppOptions == {Undefined, GeckoWithId(<<>>), GeckoWithId(<<"a", "@", "b">>)}

\* name: absent, empty, usable, unusable (a space), and one with U+00E9.
NameOptions ==
  {Undefined, BStr(<<>>), BStr(<<"e", "x", "t">>), BStr(<<"m", " ", "x">>),
   BStr(<<"c", "xC3", "xA9">>)}

VersionOptions == {Undefined, BStr(<<"1">>)}

ManifestObject(bss, app, name, version) ==
  [t |-> "jsonbytes", syntax |-> "object", browser_specific_settings |-> bss,
   applications |-> app, name |-> name, version |-> version]

ManifestFiles ==
  {ManifestObject(bss, app, name, version) :
     bss \in BssOptions, app \in AppOptions, name \in NameOptions,
     version \in VersionOptions}
    \cup {[t |-> "jsonbytes", syntax |-> "malformed"],
          [t |-> "jsonbytes", syntax |-> "null"]}

ScriptFile == [t |-> "other"]

\* A second manifest below the root, with an identity of its own.
SubManifestFile ==
  ManifestObject(GeckoWithId(<<"z", "@", "z">>), Undefined, BStr(<<"s", "u", "b">>),
                 BStr(<<"2">>))

DirNode(m, c, s) ==
  [t |-> "dir",
   files |-> [p \in RelPaths |->
                CASE p = ManifestPath -> m
                  [] p = ScriptPath -> c
                  [] OTHER -> s]]

Dirs ==
  {DirNode(m, cs[1], cs[2]) :
     m \in ManifestFiles \cup {NoFile},
     cs \in {<<NoFile, NoFile>>, <<ScriptFile, NoFile>>, <<ScriptFile, SubManifestFile>>}}

\* The archive of a directory's regular files, complete.
PackedEntries(dir) ==
  LET e(p) == IF dir.files[p] = NoFile THEN <<>>
              ELSE <<[t |-> "entry", filename |-> p, data |-> dir.files[p]]>>
  IN  e(SubManifestPath) \o e(ScriptPath) \o e(ManifestPath)

Packed(dir) == [t |-> "zip", entries |-> PackedEntries(dir), cd |-> TRUE]

\* Regular files: archives, an archive cut short, and a bare manifest.
Files ==
  {FileNode(Packed(d)) : d \in Dirs}
    \cup {FileNode([t |-> "zip", entries |-> <<>>, cd |-> FALSE]),
          FileNode(SubManifestFile)}

Worlds == {NoNode} \cup Dirs \cup Files

---------------------------------------------------------------------------
(* The specification of the file operations.                               *)

ApiIdle == [op |-> "none", in |-> Undefined, out |-> Undefined]

Init ==
  /\ api = ApiIdle
  /\ world \in Worlds
  /\ disk = {}
  /\ pkg = PkgIdle
  /\ zip = ZipIdle
  /\ last = NoCall
  /\ readers = 0
  /\ ncalls = 0

Next ==
  \/ \E d \in TextDecoders : PkgStart(d)
  \/ PkgWalk
  \/ PkgClose
  \/ ZipWriteCentralDirectory
  \/ ZipCloseStream
  \/ PkgInspect
  \/ PkgDerive
  \/ PkgGetData
  \/ PkgWrite
  \/ \E p \in ClientPaths, d \in TextDecoders : CallReadExtInfo(p, d)
  \/ \E p \in ClientPaths : CallReadXpiInfo(p)
  \/ \E p \in ClientPaths, d \in TextDecoders : CallParseExtManifest(p, d)

Spec == Init /\ [][Next]_vars

---------------------------------------------------------------------------
(* The specification of the pure functions: getID and the constructors of  *)
(* Result, applied to inputs drawn from bounded sets.                      *)

\* A letter, a capital, the at sign, a dash, and a space.
PureAlphabet == {"a", "Z", "@", "-", " "}

StringsUpTo(n) == UNION {[1..k -> PureAlphabet] : k \in 0..n}

\* Braced UUIDs and near misses: capitals, a letter that is no hex digit,
\* a missing brace, a missing digit, a misplaced dash, a trailing brace.
UuidSamples ==
  {ValidUuid, UuidOf("F"), UuidOf("g"),
   [ValidUuid EXCEPT ![38] = "1"],
   SubSeq(ValidUuid, 1, 37),
   [ValidUuid EXCEPT ![10] = "1"],
   ValidUuid \o <<"}">>}

IdInputs ==
  {JsStr(s) : s \in StringsUpTo(MaxIdLen)} \cup {JsStr(u) : u \in UuidSamples}
    \cup {Undefined}

NameInputs == {JsStr(s) : s \in StringsUpTo(MaxNameLen)} \cup {Undefined}

AddonInfoInputs ==
  {[t |-> "AddonInfo", id |-> i, name |-> n, version |-> JsStr(<<"1">>)] :
     i \in IdInputs, n \in NameInputs}

PayloadInputs ==
  {[t |-> "payload", v |-> x] :
     x \in {Undefined, Null, JsStr(<<>>), JsStr(<<"a">>), [t |-> "number", n |-> 0],
            [t |-> "boolean", b |-> FALSE],
            [id |-> JsStr(<<"a", "@", "b">>), name |-> JsStr(<<>>), version |-> Undefined]}}

ErrorInputs == {[t |-> "err", v |-> e] : e \in {MissingManifestError, NotExistError}}

InitPure ==
  /\ api \in {[op |-> "none", in |-> x, out |-> Undefined] :
                x \in AddonInfoInputs \cup PayloadInputs \cup ErrorInputs}
  /\ world = NoNode
  /\ disk = {}
  /\ pkg = PkgIdle
  /\ zip = ZipIdle
  /\ last = NoCall
  /\ readers = 0
  /\ ncalls = 0

ApplyGetID ==
  /\ api.op = "none"
  /\ api.in.t = "AddonInfo"
  /\ api' = [api EXCEPT !.op = "getID", !.out = getID(api.in)]
  /\ UNCHANGED <<world, disk, pkg, zip, last, readers, ncalls>>

BuildFromData ==
  /\ api.op = "none"
  /\ api.in.t = "payload"
  /\ api' = [api EXCEPT !.op = "from_data", !.out = from_data(api.in.v)]
  /\ UNCHANGED <<world, disk, pkg, zip, last, readers, ncalls>>

BuildFromError ==
  /\ api.op = "none"
  /\ api.in.t = "err"
  /\ api' = [api EXCEPT !.op = "from_error", !.out = from_error(api.in.v)]
  /\ UNCHANGED <<world, disk, pkg, zip, last, readers, ncalls>>

NextPure == ApplyGetID \/ BuildFromData \/ BuildFromError

SpecPure == InitPure /\ [][NextPure]_vars

---------------------------------------------------------------------------
(* Properties.                                                             *)

\* What the statements below call "the identifier validator accepts s".
Accepts(s) == MatchesUuid(s) \/ MatchesEmailLike(s)

\* C1: getID follows the explicit-id-first precedence.  For an AddonInfo
\* with string fields: a non-empty id is returned unchanged when the
\* validator accepts it and undefined is returned when it does not,
\* whatever the name; with an empty id and a non-empty name the result is
\* "@" + name when the validator accepts that and undefined otherwise;
\* with both empty the result is undefined.
C1_GetIDPrecedence ==
  (api.op = "getID" /\ IsStr(api.in.id) /\ IsStr(api.in.name)) =>
    LET id == api.in.id.s
        name == api.in.name.s
        candidate == <<"@">> \o name
    IN  /\ (id # <<>> /\ Accepts(id)) => api.out = JsStr(id)
        /\ (id # <<>> /\ ~Accepts(id)) => api.out = Undefined
        /\ (id = <<>> /\ name # <<>> /\ Accepts(candidate)) => api.out = JsStr(candidate)
        /\ (id = <<>> /\ name # <<>> /\ ~Accepts(candidate)) => api.out = Undefined
        /\ (id = <<>> /\ name = <<>>) => api.out = Undefined

\* C1, witness: getID has answered undefined for an invalid explicit id
\* although the name alone would have given a valid identifier.
C1_Witness ==
  /\ api.op = "getID"
  /\ IsStr(api.in.id) /\ IsStr(api.in.name)
  /\ api.in.id.s # <<>> /\ ~Accepts(api.in.id.s)
  /\ api.in.name.s # <<>> /\ Accepts(<<"@">> \o api.in.name.s)
  /\ api.out = Undefined

\* The inspection packageXpi makes of its source directory.
SourceInspection == readExtInfo(world, pkg.textDecoder)

\* The inspection succeeded: it returned, and returned a success.
InspectionSucceeded(o) == o.ret.t = "return" /\ is_ok(o.ret.v) /\ ~is_err(o.ret.v)

\* The identifier of a successful inspection.
InspectedId(o) == getID(data(o.ret.v).info)

\* C2: packageXpi writes the output file only if the inspection of the
\* source directory succeeded and getID gave a defined identifier that the
\* validator accepts, and the file is named after it; when the inspection
\* fails or no identifier can be derived, packageXpi ends with nothing
\* written.
C2_WriteOnlyWithIdentity ==
  /\ \A f \in disk :
       /\ InspectionSucceeded(SourceInspection)
       /\ IsStr(InspectedId(SourceInspection))
       /\ Accepts(InspectedId(SourceInspection).s)
       /\ f.name = InspectedId(SourceInspection).s \o XpiSuffix
  /\ (pkg.pc \in {"getData", "write", "done"}
        /\ (~InspectionSucceeded(SourceInspection)
              \/ InspectedId(SourceInspection) = Undefined))
       => (disk = {} /\ pkg.pc = "done")

\* C2, witness: packageXpi has ended on a directory whose manifest parses
\* but gives no identifier, and nothing was written.
C2_Witness ==
  /\ pkg.pc = "done"
  /\ world.t = "dir"
  /\ InspectionSucceeded(SourceInspection)
  /\ InspectedId(SourceInspection) = Undefined
  /\ disk = {}

\* C3: packageXpi reports its outcome as a Result: whenever it returns,
\* it returns a Result that is a success carrying the written path if the
\* file was written, and a failure otherwise.
C3_ReportsResult ==
  (pkg.pc = "done" /\ pkg.ret.t = "return") =>
    /\ pkg.ret.v.t = "Result"
    /\ IF disk # {}
       THEN is_ok(pkg.ret.v) /\ data(pkg.ret.v) = JsStr(pkg.fileName)
       ELSE is_err(pkg.ret.v)

\* C4: readExtInfo, readXpiInfo and parseExtManifest never raise: every
\* call ends by returning a Result.
C4_NeverRaises ==
  (last.op # "none") => (last.ret.t = "return" /\ last.ret.v.t = "Result")

\* C5: whenever readExtInfo or readXpiInfo has opened an archive reader,
\* the reader is closed by the time the call returns.
C5_ReaderClosedOnReturn ==
  (last.op \in {"readExtInfo", "readXpiInfo"} /\ last.ret.t = "return")
    => last.opened = last.closed

\* C6: a Result built by from_data or from_error is in exactly one of the
\* two states: from_data gives is_ok and not is_err, from_error gives
\* is_err and not is_ok.
C6_ExactlyOneState ==
  /\ api.op = "from_data" => (is_ok(api.out) /\ ~is_err(api.out))
  /\ api.op = "from_error" => (is_err(api.out) /\ ~is_ok(api.out))

\* The text a reader call parsed: manifest.json of a directory, the
\* manifest.json entry of an archive, or the file itself.
ParsedText(op, node, textDecoder) ==
  IF op = "parseExtManifest" THEN Decode(Or(textDecoder, DefaultDecoder), node.content)
  ELSE IF node.t = "dir" THEN Decode(Or(textDecoder, DefaultDecoder), node.files[ManifestPath])
  ELSE TextWriterData(FindManifestEntry(node.content.entries).data)

\* The AddonInfo of a successful reader call.
ReturnedInfo(c) == IF c.op = "readExtInfo" THEN data(c.ret.v).info ELSE data(c.ret.v)

\* The id the statement C7 gives a manifest object.
StatedId(m) ==
  LET b == GeckoId(m.browser_specific_settings)
      a == GeckoId(m.applications)
  IN  IF IsStr(b) /\ b.s # <<>> THEN b
      ELSE IF a # Undefined THEN a
      ELSE JsStr(<<>>)

LastReturnedData == last.op # "none" /\ last.ret.t = "return" /\ is_ok(last.ret.v)

\* C7: the id of the AddonInfo a reader returns is
\* browser_specific_settings.gecko.id when that is present and non-empty,
\* otherwise applications.gecko.id, and the empty string when both are
\* absent.
C7_IdExtraction ==
  LastReturnedData =>
    ReturnedInfo(last) =
      [ExtractDetails(JSONParse(ParsedText(last.op, Resolve(last.path, world, disk),
                                           last.textDecoder)).v)
         EXCEPT !.id = StatedId(JSONParse(ParsedText(last.op,
                                                     Resolve(last.path, world, disk),
                                                     last.textDecoder)).v)]

\* C8: the type tag of an ExtInfo that readExtInfo returns is "dir" for a
\* directory and "xpi" for a regular file.
C8_TypeTag ==
  (LastReturnedData /\ last.op = "readExtInfo") =>
    data(last.ret.v).type =
      (IF Resolve(last.path, world, disk).t = "dir" THEN "dir" ELSE "xpi")

\* C9: round trip.  Once packageXpi has written its archive, readExtInfo
\* on the archive yields the same AddonInfo as readExtInfo, called the
\* same way, on the source directory.
C9_RoundTrip ==
  (/\ pkg.pc = "done"
   /\ last.op = "readExtInfo"
   /\ last.path.t = "out"
   /\ InspectionSucceeded(readExtInfo(world, last.textDecoder)))
    => /\ LastReturnedData
       /\ data(last.ret.v).info = data(readExtInfo(world, last.textDecoder).ret.v).info

\* The round trip under the default decoding: the same, for calls of
\* readExtInfo that pass no decoder.  The archive holds manifest.json
\* under that name with unchanged bytes; the two inspections can differ
\* only through the decoder, which the archive branch does not use.
RoundTripDefaultDecoder ==
  (/\ pkg.pc = "done"
   /\ last.op = "readExtInfo"
   /\ last.path.t = "out"
   /\ last.textDecoder = Undefined
   /\ InspectionSucceeded(readExtInfo(world, Undefined)))
    => /\ LastReturnedData
       /\ data(last.ret.v).info = data(readExtInfo(world, Undefined).ret.v).info

\* The regular files of a directory, as archive entries.
FileEntries(dir) ==
  {[t |-> "entry", filename |-> p, data |-> dir.files[p]] :
     p \in {q \in RelPaths : dir.files[q] # NoFile}}

\* An archive is complete for a directory: the central directory is
\* written, and the entries are the directory's regular files, once each.
CompleteArchive(content, dir) ==
  /\ content.t = "zip"
  /\ content.cd
  /\ {content.entries[i] : i \in 1..Len(content.entries)} = FileEntries(dir)
  /\ Len(content.entries) = Cardinality(FileEntries(dir))

\* C10: in packageXpi the payload is obtained, and the file written, only
\* after the archive writer is finalized: once the payload is there, every
\* regular file of the source has been added, the central directory is
\* written and the writer's stream is closed, so the payload and the file
\* written are the complete archive.
C10_WriteAfterFinalize ==
  /\ pkg.blob # Undefined =>
       (zip.cd /\ zip.closed /\ zip.task = "done" /\ CompleteArchive(pkg.blob, world))
  /\ \A f \in disk : CompleteArchive(f.content, world)

\* C10, witness: a source of three regular files has been packaged and
\* written.
C10_Witness ==
  /\ pkg.pc = "done"
  /\ \E f \in disk : Len(f.content.entries) = 3

====
